---------------------------- MODULE Spec2Model ----------------------------
(***************************************************************************)
(* A model of exercise.ipynb: learning a projection matrix P that          *)
(* re-weights embeddings for codebase retrieval.                           *)
(*                                                                         *)
(* The notebook is a straight-line program of cells.  The state is the     *)
(* notebook's global variables; every cell (and every iteration of the     *)
(* training and evaluation loops) is an action, in the order the cells     *)
(* run.  Numbers:                                                          *)
(*   - float32 values (embeddings, P, logits, scores) are fixed-point      *)
(*     numbers, written as integers of thousandths (1.0 is Unit, the       *)
(*     learning rate 0.001 is 1), with two infinities and a NaN that       *)
(*     follow the IEEE rules; the magnitudes of the model stay far below   *)
(*     float32's largest finite value, so no finite operation overflows;   *)
(*   - the logistic function and the logistic loss are interpolated from   *)
(*     tables, and losses and gradients are kept in hundredths;            *)
(*   - the Python floats of average_precision and of the evaluation are   *)
(*     IEEE doubles, with their 53 binary digits and their rounding.       *)
(* Specification Spec is the notebook run on a dataset drawn at Init;      *)
(* specification SpecTrain is the training cell run on a list of pairs;    *)
(* specification SpecFn applies the notebook's functions to arguments      *)
(* drawn from bounded sets.                                                *)
(***************************************************************************)
EXTENDS Integers, Sequences, FiniteSets

VARIABLES
    dataset,        \* List[Example], parsed once, read-only
    P,              \* the projection matrix (rows of thousandths)
    example_pairs,  \* list of (user input, snippet, label)
    train_pairs,    \* example_pairs[:split_index]
    val_pairs,      \* example_pairs[split_index:]
    pc,             \* the place the notebook has reached
    epoch,          \* the training loop's epoch
    idx,            \* pairs / examples already handled by the running loop
    grad,           \* P.grad: [nan |-> BOOLEAN, g |-> matrix in hundredths]
    optimizer,      \* Adam: [steps |-> calls of step(), nan, m_hat, v_hat]
    loss,           \* the last per-pair training loss (global `loss`)
    val_loss,       \* the validation loss being summed
    printed,        \* the validation losses printed, one per epoch
    encode_calls,   \* text -> number of model.encode calls made for it
    retrieved,      \* the last list retrieve_relevant_snippets returned
    strategy_calls, \* the queries evaluate_retrieval_strategy retrieved for
    ap,             \* the last average precision computed by the evaluation
    total_ap,       \* evaluate_retrieval_strategy's running sum
    num_queries,    \* evaluate_retrieval_strategy's count
    result,         \* what evaluate_retrieval_strategy returned
    fn_call         \* SpecFn: the last function call, arguments and result

vars == <<dataset, P, example_pairs, train_pairs, val_pairs, pc, epoch, idx,
          grad, optimizer, loss, val_loss, printed, encode_calls, retrieved,
          strategy_calls, ap, total_ap, num_queries, result, fn_call>>

---------------------------------------------------------------------------
(* Bounds of the model *)

\* Examples in a dataset, snippets in an Example, snippets in a dataset.
MaxExamples == 2
MaxSnippets == 2
MaxPairs == 3
\* Epochs of the training loop (num_epochs = 25 in the notebook).
NumEpochs == 2
\* Length of the lists handed to the functions under SpecFn.
MaxLen == 3
\* Pairs in the shuffled list the training cell starts from under SpecTrain.
MaxBatch == 6

---------------------------------------------------------------------------
(* The float domain *)

\* 1.0 in thousandths.
Unit == 1000

\* +inf, -inf and nan: three integers outside the range of the finite values.
Inf == 2000000000
NInf == 0 - Inf
NaN == Inf + 1

IsFinite(x) == x # Inf /\ x # NInf /\ x # NaN

FAdd(x, y) ==
    IF x = NaN \/ y = NaN THEN NaN
    ELSE IF (x = Inf /\ y = NInf) \/ (x = NInf /\ y = Inf) THEN NaN
    ELSE IF x = Inf \/ y = Inf THEN Inf
    ELSE IF x = NInf \/ y = NInf THEN NInf
    ELSE x + y

\* The product of two fixed-point numbers, rounded to the nearest thousandth.
FMul(x, y) ==
    IF x = NaN \/ y = NaN THEN NaN
    ELSE IF ~IsFinite(x) \/ ~IsFinite(y)
         THEN IF x = 0 \/ y = 0 THEN NaN
              ELSE IF (x > 0) = (y > 0) THEN Inf ELSE NInf
    ELSE (2 * x * y + Unit) \div (2 * Unit)

\* a @ b for two vectors: the products are summed left to right.
RECURSIVE DotUpTo(_, _, _)
DotUpTo(a, b, n) ==
    IF n = 0 THEN 0 ELSE FAdd(DotUpTo(a, b, n - 1), FMul(a[n], b[n]))

Dot(a, b) == DotUpTo(a, b, Len(a))

Column(M, j) == [i \in 1..Len(M) |-> M[i][j]]

\* a @ M for a row vector a and a matrix M (a sequence of rows).
VecMat(a, M) == [j \in 1..Len(M[1]) |-> Dot(a, Column(M, j))]

---------------------------------------------------------------------------
(* Rationals <<n, d>>, d > 0, in lowest terms (the moments of Adam) *)

RECURSIVE GCD(_, _)
GCD(a, b) == IF b = 0 THEN a ELSE GCD(b, a % b)

Abs(x) == IF x < 0 THEN 0 - x ELSE x

Rat(n, d) ==
    LET g == GCD(Abs(n), d) IN IF n = 0 THEN <<0, 1>> ELSE <<n \div g, d \div g>>

RatAdd(r, s) == Rat(r[1] * s[2] + s[1] * r[2], r[2] * s[2])

RatSub(r, s) == Rat(r[1] * s[2] - s[1] * r[2], r[2] * s[2])

RatMul(r, s) == Rat(r[1] * s[1], r[2] * s[2])

RatLeq(r, s) == r[1] * s[2] <= s[1] * r[2]

---------------------------------------------------------------------------
(* Python floats: IEEE doubles with 53 binary digits *)

\* Natural numbers of any size are sequences of binary digits, the most
\* significant first and 1; zero is the empty sequence.
Zeros(k) == [i \in 1..k |-> 0]

RECURSIVE Bits(_)
Bits(n) == IF n = 0 THEN <<>> ELSE Append(Bits(n \div 2), n % 2)

RECURSIVE BitsValue(_, _, _)
BitsValue(b, i, acc) == IF i > Len(b) THEN acc ELSE BitsValue(b, i + 1, 2 * acc + b[i])

\* b without its leading zeros.
Strip(b) ==
    IF \A i \in 1..Len(b) : b[i] = 0 THEN <<>>
    ELSE SubSeq(b, CHOOSE i \in 1..Len(b) : b[i] = 1 /\ \A j \in 1..(i - 1) : b[j] = 0,
                Len(b))

Reverse(b) == [i \in 1..Len(b) |-> b[Len(b) + 1 - i]]

\* The digits lo..hi of a + b for two digit sequences of the same length,
\* given the carry into digit hi: the digits, the least significant first,
\* and the carry out of digit lo.  The range is added in two halves, the
\* less significant one first.
RECURSIVE AddRange(_, _, _, _, _)
AddRange(a, b, lo, hi, carry) ==
    IF lo = hi
    THEN [carry |-> (a[lo] + b[lo] + carry) \div 2, bits |-> <<(a[lo] + b[lo] + carry) % 2>>]
    ELSE LET mid == (lo + hi) \div 2
             low == AddRange(a, b, mid + 1, hi, carry)
             high == AddRange(a, b, lo, mid, low.carry)
         IN  [bits |-> low.bits \o high.bits, carry |-> high.carry]

BigAdd(a, b) ==
    LET n == IF Len(a) > Len(b) THEN Len(a) ELSE Len(b)
        sum == AddRange(Zeros(n - Len(a)) \o a, Zeros(n - Len(b)) \o b, 1, n, 0)
    IN  IF n = 0 THEN <<>> ELSE Strip(Reverse(Append(sum.bits, sum.carry)))

\* The digits lo..hi of b * c for a small c, as in AddRange.
RECURSIVE MulRange(_, _, _, _, _)
MulRange(b, c, lo, hi, carry) ==
    IF lo = hi
    THEN [carry |-> (b[lo] * c + carry) \div 2, bits |-> <<(b[lo] * c + carry) % 2>>]
    ELSE LET mid == (lo + hi) \div 2
             low == MulRange(b, c, mid + 1, hi, carry)
             high == MulRange(b, c, lo, mid, low.carry)
         IN  [bits |-> low.bits \o high.bits, carry |-> high.carry]

BigMul(b, c) ==
    LET product == MulRange(b, c, 1, Len(b), 0)
    IN  IF b = <<>> THEN <<>> ELSE Strip(Bits(product.carry) \o Reverse(product.bits))

\* Long division of the digits lo..hi of b by a small d, given the remainder
\* r left by the digits before lo: the quotient digits and the remainder.
RECURSIVE DivRange(_, _, _, _, _)
DivRange(b, d, lo, hi, r) ==
    IF lo = hi
    THEN IF 2 * r + b[lo] >= d
         THEN [q |-> <<1>>, r |-> 2 * r + b[lo] - d]
         ELSE [q |-> <<0>>, r |-> 2 * r + b[lo]]
    ELSE LET mid == (lo + hi) \div 2
             first == DivRange(b, d, lo, mid, r)
             second == DivRange(b, d, mid + 1, hi, first.r)
         IN  [q |-> first.q \o second.q, r |-> second.r]

\* b divided by a small d: quotient and remainder.
BigDiv(b, d) ==
    LET qr == DivRange(b, d, 1, Len(b), 0)
    IN  IF b = <<>> THEN [q |-> <<>>, r |-> 0] ELSE [q |-> Strip(qr.q), r |-> qr.r]

\* A float x >= 0 is mantissa * 2^exponent, the mantissa a sequence of
\* exactly 53 binary digits; 0.0 has the empty mantissa.  (The values of the
\* evaluation are far from the subnormal and the overflow range.)
FloatZero == [mantissa |-> <<>>, exponent |-> 0]

\* The float nearest to (n + f) * 2^e, where n is a digit sequence and
\* 0 <= f < 1 with f > 0 iff `inexact`; a tie goes to the even mantissa.
\* With `inexact` n has more than 54 digits.
RoundToFloat(n, e, inexact) ==
    LET len == Len(n)
        top == SubSeq(n, 1, 53)
        tail_set == \E i \in 55..len : n[i] = 1
        up == n[54] = 1 /\ (tail_set \/ inexact \/ top[53] = 1)
        inc == BigAdd(top, <<1>>)
    IN  IF n = <<>> THEN FloatZero
        ELSE IF len <= 53
        THEN [mantissa |-> n \o Zeros(53 - len), exponent |-> e - (53 - len)]
        ELSE IF ~up THEN [mantissa |-> top, exponent |-> e + (len - 53)]
        ELSE IF Len(inc) = 54
        THEN [mantissa |-> SubSeq(inc, 1, 53), exponent |-> e + (len - 53) + 1]
        ELSE [mantissa |-> inc, exponent |-> e + (len - 53)]

\* n / d for ints n >= 0 and d > 0: the quotient, correctly rounded.
IntTrueDiv(n, d) ==
    LET shift == 56 + Len(Bits(d))
        qr == BigDiv(Bits(n) \o Zeros(shift), d)
    IN  IF n = 0 THEN FloatZero ELSE RoundToFloat(qr.q, 0 - shift, qr.r # 0)

\* x / d for a float x and an int d > 0.
FloatDivInt(x, d) ==
    LET shift == 2 + Len(Bits(d))
        qr == BigDiv(x.mantissa \o Zeros(shift), d)
    IN  IF x = FloatZero THEN FloatZero
        ELSE RoundToFloat(qr.q, x.exponent - shift, qr.r # 0)

\* x + y for floats.
FloatAdd(x, y) ==
    LET e == IF x.exponent < y.exponent THEN x.exponent ELSE y.exponent
    IN  IF x = FloatZero THEN y
        ELSE IF y = FloatZero THEN x
        ELSE RoundToFloat(BigAdd(x.mantissa \o Zeros(x.exponent - e),
                                 y.mantissa \o Zeros(y.exponent - e)), e, FALSE)

---------------------------------------------------------------------------
(* The embedding provider *)

Queries == {"q1", "q2"}
Snippets == {"sA", "sB"}
Texts == Queries \cup Snippets \cup {"Reset password", "Hello world"}

\* model.encode: a fixed, deterministic table standing for the sentence
\* transformer.
embed(text) ==
    CASE text = "q1" -> <<Unit, 0>>
      [] text = "q2" -> <<Unit, Unit>>
      [] text = "sA" -> <<Unit, 0>>
      [] text = "sB" -> <<0, Unit>>
      [] text = "Reset password" -> <<0, Unit>>
      [] OTHER -> <<0, 0>>

dim == Len(embed("Hello world"))

\* The calls made before the pairs are constructed: the set-up cell embeds
\* "Hello world" to read the dimension.
InitialEncodeCalls == [t \in Texts |-> IF t = "Hello world" THEN 1 ELSE 0]

\* The provider is called once by every embed(text): no result is kept.
RECURSIVE Encoded(_, _)
Encoded(calls, texts) ==
    IF texts = <<>> THEN calls
    ELSE Encoded([calls EXCEPT ![Head(texts)] = @ + 1], Tail(texts))

---------------------------------------------------------------------------
(* Similarity *)

similarity(x_i, x_c) ==
    LET a == embed(x_i)
        b == embed(x_c)
    IN  Dot(a, b)

similarity_with_projection(x_i, x_c, M) ==
    LET a == embed(x_i)
        b == embed(x_c)
    IN  Dot(VecMat(a, M), b)

---------------------------------------------------------------------------
(* Construct examples *)

\* threshold = 0.7
ThresholdNum == 7
ThresholdDen == 10

\* similarity_score > threshold, on floats: false for NaN.
AboveThreshold(s) ==
    /\ s # NaN
    /\ s # NInf
    /\ (s = Inf \/ ThresholdDen * s > ThresholdNum * Unit)

PairOf(user_input, snippet) ==
    <<user_input, snippet,
      IF AboveThreshold(similarity(user_input, snippet)) THEN 1 ELSE 0>>

PairsOfExample(example) ==
    [k \in 1..Len(example.snippets) |->
        PairOf(example.user_input, example.snippets[k])]

RECURSIVE ConstructPairs(_)
ConstructPairs(ds) ==
    IF ds = <<>> THEN <<>>
    ELSE PairsOfExample(Head(ds)) \o ConstructPairs(Tail(ds))

\* The texts embedded while the pairs of ds are constructed, in order.
RECURSIVE PairTexts(_)
PairTexts(pairs) ==
    IF pairs = <<>> THEN <<>>
    ELSE <<Head(pairs)[1], Head(pairs)[2]>> \o PairTexts(Tail(pairs))

\* A split boundary rounded up instead of truncated.
SplitIndex_RoundUp(n) == (8 * n + 9) \div 10

\* int(0.8 * len(example_pairs))
SplitIndex(n) == (8 * n) \div 10

Permutations(n) ==
    {f \in [1..n -> 1..n] : \A i, j \in 1..n : f[i] = f[j] => i = j}

---------------------------------------------------------------------------
(* The datasets of the model *)

SeqsUpTo(S, n) == UNION {[1..k -> S] : k \in 0..n}

Examples ==
    {[user_input |-> q, snippets |-> s] :
        q \in Queries, s \in SeqsUpTo(Snippets, MaxSnippets)}

RECURSIVE SnippetCount(_)
SnippetCount(ds) ==
    IF ds = <<>> THEN 0 ELSE Len(Head(ds).snippets) + SnippetCount(Tail(ds))

Datasets ==
    {ds \in SeqsUpTo(Examples, MaxExamples) : SnippetCount(ds) <= MaxPairs}

IdentityMatrix == [i \in 1..dim |-> [j \in 1..dim |-> IF i = j THEN Unit ELSE 0]]
SwapMatrix ==
    [i \in 1..dim |-> [j \in 1..dim |-> IF i + j = dim + 1 THEN Unit ELSE 0]]
ZeroMatrix == [i \in 1..dim |-> [j \in 1..dim |-> 0]]

\* torch.randn(dim, dim): the matrices the model starts training from.
InitialMatrices == {IdentityMatrix, SwapMatrix}

---------------------------------------------------------------------------
(* The loss function *)

\* BCE-with-logits losses are non-negative numbers, in hundredths; the two
\* non-finite values a float loss can take are written as negative numbers.
LossInf == 0 - 1
LossNaN == 0 - 2

LossIsFinite(l) == l >= 0

\* The tables hold a function at 0.0, 0.1, ..., 8.0 in ten-thousandths.
TableStep == 100
TableLast == 8000

\* The value of a tabulated function at z thousandths, 0 <= z <= TableLast,
\* interpolated linearly between the two neighbouring entries.
Interpolate(table, z) ==
    LET k == z \div TableStep
        r == z % TableStep
    IN  IF r = 0 THEN table[k + 1]
        ELSE table[k + 1] + ((table[k + 2] - table[k + 1]) * r + TableStep \div 2) \div TableStep

\* 10000 * log(1 + exp(z)).
SoftplusTable ==
    <<
      6931, 7444, 7981, 8544, 9130, 9741, 10375, 11032, 11711,
      12412, 13133, 13873, 14633, 15410, 16204, 17014, 17839, 18678,
      19530, 20394, 21269, 22155, 23051, 23955, 24868, 25789, 26716,
      27650, 28590, 29536, 30486, 31441, 32400, 33362, 34328, 35298,
      36270, 37244, 38221, 39200, 40181, 41164, 42149, 43135, 44122,
      45110, 46100, 47091, 48082, 49074, 50067, 51061, 52055, 53050,
      54045, 55041, 56037, 57033, 58030, 59027, 60025, 61022, 62020,
      63018, 64017, 65015, 66014, 67012, 68011, 69010, 70009, 71008,
      72007, 73007, 74006, 75006, 76005, 77005, 78004, 79004, 80003
    >>

\* 10000 * log(1 + exp(z)) for z thousandths: log(1 + exp(z)) is z beyond the
\* table, and log(1 + exp(-z)) + z below 0.
Softplus10000(z) ==
    IF z > TableLast THEN 10 * z
    ELSE IF z >= 0 THEN Interpolate(SoftplusTable, z)
    ELSE IF z >= 0 - TableLast THEN Interpolate(SoftplusTable, 0 - z) + 10 * z
    ELSE 0

\* 100 * log(1 + exp(z)), rounded.
Softplus100(z) == (Softplus10000(z) + 50) \div 100

\* 10000 * sigmoid(z).
SigmoidTable ==
    <<
      5000, 5250, 5498, 5744, 5987, 6225, 6457, 6682, 6900,
      7109, 7311, 7503, 7685, 7858, 8022, 8176, 8320, 8455,
      8581, 8699, 8808, 8909, 9002, 9089, 9168, 9241, 9309,
      9370, 9427, 9478, 9526, 9569, 9608, 9644, 9677, 9707,
      9734, 9759, 9781, 9802, 9820, 9837, 9852, 9866, 9879,
      9890, 9900, 9910, 9918, 9926, 9933, 9939, 9945, 9950,
      9955, 9959, 9963, 9967, 9970, 9973, 9975, 9978, 9980,
      9982, 9983, 9985, 9986, 9988, 9989, 9990, 9991, 9992,
      9993, 9993, 9994, 9994, 9995, 9995, 9996, 9996, 9997
    >>

Sigmoid10000(z) ==
    IF z > TableLast THEN 10000
    ELSE IF z >= 0 THEN Interpolate(SigmoidTable, z)
    ELSE IF z >= 0 - TableLast THEN 10000 - Interpolate(SigmoidTable, 0 - z)
    ELSE 0

\* 100 * sigmoid(x), rounded; sigmoid(Inf) = 1, sigmoid(-Inf) = 0.
Sigmoid100(x) ==
    IF x = Inf THEN 100
    ELSE IF x = NInf THEN 0
    ELSE (Sigmoid10000(x) + 50) \div 100

\* nn.BCEWithLogitsLoss()(prediction, target) for one prediction:
\* (1 - target) * prediction - log_sigmoid(prediction), on floats.
loss_func(prediction, target) ==
    IF prediction = NaN THEN LossNaN
    ELSE IF prediction = Inf THEN (IF target = 0 THEN LossInf ELSE LossNaN)
    ELSE IF prediction = NInf THEN LossNaN
    ELSE (10 * (1 - target) * prediction + Softplus10000(0 - prediction) + 50) \div 100

\* An accumulation that keeps only the newest loss instead of the sum.
LossAdd_KeepLast(x, y) == y

\* The float sum of two losses.
LossAdd(x, y) ==
    IF x = LossNaN \/ y = LossNaN THEN LossNaN
    ELSE IF x = LossInf \/ y = LossInf THEN LossInf
    ELSE x + y

---------------------------------------------------------------------------
(* Gradients and the optimizer *)

MatAdd(A, B) == [i \in 1..Len(A) |-> [j \in 1..Len(A[i]) |-> A[i][j] + B[i][j]]]

NoGrad == [nan |-> FALSE, g |-> ZeroMatrix]

\* d loss / d M for one pair: (sigmoid(prediction) - y) * outer(a, b), in
\* hundredths; every entry is NaN when the prediction is NaN.
PairGradient(pair, M) ==
    LET a == embed(pair[1])
        b == embed(pair[2])
        prediction == similarity_with_projection(pair[1], pair[2], M)
        upstream == IF prediction = NaN THEN 0 ELSE Sigmoid100(prediction) - 100 * pair[3]
    IN  [nan |-> prediction = NaN,
         g |-> [i \in 1..dim |-> [j \in 1..dim |->
                 IF prediction = NaN THEN 0
                 ELSE (2 * upstream * FMul(a[i], b[j]) + Unit) \div (2 * Unit)]]]

\* A backward pass that overwrites P.grad with the pair's gradient instead of
\* adding to it (a reset between pairs).
Backward_ResetBetweenPairs(acc, pair, M) ==
    LET pg == PairGradient(pair, M)
    IN  [nan |-> pg.nan, g |-> pg.g]

\* loss.backward(): the pair's gradient is added to P.grad.
Backward(acc, pair, M) ==
    LET pg == PairGradient(pair, M)
    IN  [nan |-> acc.nan \/ pg.nan, g |-> MatAdd(acc.g, pg.g)]

\* lr = 0.001, in thousandths.
lr == 1

RECURSIVE Pow(_, _)
Pow(b, n) == IF n = 0 THEN 1 ELSE b * Pow(b, n - 1)

Sign(x) == IF x > 0 THEN 1 ELSE IF x < 0 THEN 0 - 1 ELSE 0

ZeroMoments == [i \in 1..dim |-> [j \in 1..dim |-> <<0, 1>>]]

\* optim.Adam([P], lr=lr): no step taken, both moment estimates zero.  The
\* moments are kept bias-corrected, as exact rationals in hundredths:
\* m_hat = exp_avg / (1 - beta1^t) and v_hat = exp_avg_sq / (1 - beta2^t).
\* Once a gradient was NaN every entry of both moments is NaN: nan is TRUE.
NewOptimizer == [steps |-> 0, nan |-> FALSE, m_hat |-> ZeroMoments, v_hat |-> ZeroMoments]

\* (1 - beta) / (1 - beta^t) for beta = num / den.
BiasCorrectedWeight(num, den, t) == Rat(Pow(den, t - 1), Pow(den, t) - Pow(num, t))

\* The bias-corrected moving average after the t-th value x:
\* (beta * (1 - beta^(t-1)) * prev + (1 - beta) * x) / (1 - beta^t), which is
\* prev + weight * (x - prev).
MovingAverage(prev, x, num, den, t) ==
    IF prev = x THEN prev
    ELSE RatAdd(prev, RatMul(BiasCorrectedWeight(num, den, t), RatSub(x, prev)))

\* Adam's moment estimates after one more step with the gradient gr,
\* beta1 = 0.9 and beta2 = 0.999.
AdamMoment(opt, gr) ==
    [steps |-> opt.steps + 1,
     nan |-> opt.nan \/ gr.nan,
     m_hat |-> [i \in 1..dim |-> [j \in 1..dim |->
                 MovingAverage(opt.m_hat[i][j], <<gr.g[i][j], 1>>, 9, 10, opt.steps + 1)]],
     v_hat |-> [i \in 1..dim |-> [j \in 1..dim |->
                 MovingAverage(opt.v_hat[i][j], <<gr.g[i][j] * gr.g[i][j], 1>>,
                               999, 1000, opt.steps + 1)]]]

\* m_hat / (sqrt(v_hat) + eps) rounded to the nearest integer; eps = 1e-8 is
\* below the resolution.  The magnitude is the k with
\* (k - 1/2)^2 * v_hat <= m_hat^2 < (k + 1/2)^2 * v_hat.
AdamDirection(m, v) ==
    IF m[1] = 0 THEN 0
    ELSE LET mm == RatMul(<<4, 1>>, RatMul(m, m))
             k == CHOOSE n \in 0..4 :
                     /\ (n = 0 \/ RatLeq(RatMul(<<(2 * n - 1) * (2 * n - 1), 1>>, v), mm))
                     /\ ~RatLeq(RatMul(<<(2 * n + 1) * (2 * n + 1), 1>>, v), mm)
         IN  Sign(m[1]) * k

\* optimizer.step(): every entry of M moves by lr * m_hat / (sqrt(v_hat) + eps),
\* to the nearest thousandth.  A NaN moment makes every entry NaN.
AdamStep(M, opt) ==
    [i \in 1..dim |-> [j \in 1..dim |->
        IF opt.nan THEN NaN
        ELSE FAdd(M[i][j], 0 - lr * AdamDirection(opt.m_hat[i][j], opt.v_hat[i][j]))]]

---------------------------------------------------------------------------
(* Retrieval *)

RECURSIVE all_snippets(_)
all_snippets(ds) ==
    IF ds = <<>> THEN <<>> ELSE Head(ds).snippets \o all_snippets(Tail(ds))

\* A retrieval that scores every snippet with the unprojected query embedding.
retrieve_relevant_snippets_Unprojected(user_input, snippets, M) ==
    [k \in 1..Len(snippets) |->
        <<snippets[k], Dot(embed(user_input), embed(snippets[k]))>>]

\* retrieve_relevant_snippets(user_input), with the globals all_snippets and
\* P it reads as parameters: one (snippet, similarity) per snippet, in the
\* order of all_snippets.
retrieve_relevant_snippets(user_input, snippets, M) ==
    LET user_embedding == embed(user_input)
        projected_user_embedding == VecMat(user_embedding, M)
    IN  [k \in 1..Len(snippets) |->
            <<snippets[k], Dot(projected_user_embedding, embed(snippets[k]))>>]

\* The texts retrieve_relevant_snippets embeds, in order.
RetrieveTexts(user_input, snippets) == <<user_input>> \o snippets

---------------------------------------------------------------------------
(* Evaluation *)

SetOf(s) == {s[k] : k \in 1..Len(s)}

\* The loop of average_precision adding the precision before counting the
\* item: relevant_count / i with the count of the items seen before.
RECURSIVE PrecisionLoop_CountAfter(_, _, _, _, _)
PrecisionLoop_CountAfter(relevant_set, retrieved_items, i, relevant_count, precision_sum) ==
    IF i > Len(retrieved_items) THEN precision_sum
    ELSE IF retrieved_items[i][1] \in relevant_set
         THEN PrecisionLoop_CountAfter(relevant_set, retrieved_items, i + 1,
                                       relevant_count + 1,
                                       FloatAdd(precision_sum, IntTrueDiv(relevant_count, i)))
    ELSE PrecisionLoop_CountAfter(relevant_set, retrieved_items, i + 1, relevant_count,
                                  precision_sum)

\* The loop of average_precision from position i on.
RECURSIVE PrecisionLoop(_, _, _, _, _)
PrecisionLoop(relevant_set, retrieved_items, i, relevant_count, precision_sum) ==
    IF i > Len(retrieved_items) THEN precision_sum
    ELSE IF retrieved_items[i][1] \in relevant_set
         THEN PrecisionLoop(relevant_set, retrieved_items, i + 1, relevant_count + 1,
                            FloatAdd(precision_sum, IntTrueDiv(relevant_count + 1, i)))
    ELSE PrecisionLoop(relevant_set, retrieved_items, i + 1, relevant_count, precision_sum)

\* The numbers 0 and 0.0 are both written FloatZero.
average_precision(relevant_items, retrieved_items) ==
    LET relevant_set == SetOf(relevant_items)
        precision_sum == PrecisionLoop(relevant_set, retrieved_items, 1, 0, FloatZero)
    IN  IF relevant_items # <<>>
        THEN FloatDivInt(precision_sum, Len(relevant_items))
        ELSE FloatZero

\* The digits of f"{x:.4f}" as the integer x * 10000 rounded to the nearest
\* integer: the decimal nearest to the exact value of the float, a tie going
\* to the even digit.
RoundTo4(x) ==
    LET n == BigMul(x.mantissa, 10000)
        s == 0 - x.exponent
        padded == IF Len(n) > s THEN n ELSE Zeros(s + 1 - Len(n)) \o n
        len == Len(padded)
        q == BitsValue(SubSeq(padded, 1, len - s), 1, 0)
        tail_set == \E i \in (len - s + 2)..len : padded[i] = 1
    IN  IF x = FloatZero THEN 0
        ELSE IF x.exponent >= 0 THEN BitsValue(n \o Zeros(x.exponent), 1, 0)
        ELSE IF padded[len - s + 1] = 1 /\ (tail_set \/ q % 2 = 1) THEN q + 1
        ELSE q

\* f"Mean Average Precision (MAP): {map_score:.4f}": a string, written as
\* its prefix and the digits before and after the point.
FormatMAP(map_score) ==
    [type |-> "str",
     prefix |-> "Mean Average Precision (MAP): ",
     whole |-> RoundTo4(map_score) \div 10000,
     decimals |-> RoundTo4(map_score) % 10000]

map_score_of(total, n) == IF n > 0 THEN FloatDivInt(total, n) ELSE FloatZero

---------------------------------------------------------------------------
(* The notebook run *)

NoCall == [fn |-> "none"]
NoResult == [type |-> "none"]

Init ==
    /\ dataset \in Datasets
    /\ P \in InitialMatrices
    /\ example_pairs = <<>>
    /\ train_pairs = <<>>
    /\ val_pairs = <<>>
    /\ pc = "construct_examples"
    /\ epoch = 0
    /\ idx = 0
    /\ grad = NoGrad
    /\ optimizer = NewOptimizer
    /\ loss = 0
    /\ val_loss = 0
    /\ printed = <<>>
    /\ encode_calls = InitialEncodeCalls
    /\ retrieved = <<>>
    /\ strategy_calls = <<>>
    /\ ap = FloatZero
    /\ total_ap = FloatZero
    /\ num_queries = 0
    /\ result = NoResult
    /\ fn_call = NoCall

\* Cell "Construct examples": one pair per (example, snippet), labelled by
\* comparing the baseline similarity with the threshold.
ConstructExamples ==
    /\ pc = "construct_examples"
    /\ example_pairs' = ConstructPairs(dataset)
    /\ encode_calls' = Encoded(encode_calls, PairTexts(ConstructPairs(dataset)))
    /\ pc' = "split"
    /\ UNCHANGED <<dataset, P, train_pairs, val_pairs, epoch, idx, grad, optimizer,
                   loss, val_loss, printed, retrieved, strategy_calls, ap, total_ap,
                   num_queries, result, fn_call>>

\* np.random.shuffle(example_pairs) in place, then the 80/20 split.
ShuffleAndSplit ==
    /\ pc = "split"
    /\ \E f \in Permutations(Len(example_pairs)) :
          LET shuffled == [k \in 1..Len(example_pairs) |-> example_pairs[f[k]]]
              split_index == SplitIndex(Len(shuffled))
          IN  /\ example_pairs' = shuffled
              /\ train_pairs' = SubSeq(shuffled, 1, split_index)
              /\ val_pairs' = SubSeq(shuffled, split_index + 1, Len(shuffled))
    /\ pc' = "zero_grad"
    /\ epoch' = 0
    /\ UNCHANGED <<dataset, P, idx, grad, optimizer, loss, val_loss, printed,
                   encode_calls, retrieved, strategy_calls, ap, total_ap,
                   num_queries, result, fn_call>>

\* for epoch in range(num_epochs): optimizer.zero_grad()
ZeroGrad ==
    /\ pc = "zero_grad"
    /\ epoch < NumEpochs
    /\ grad' = NoGrad
    /\ idx' = 0
    /\ pc' = "train_loop"
    /\ UNCHANGED <<dataset, P, example_pairs, train_pairs, val_pairs, epoch, optimizer,
                   loss, val_loss, printed, encode_calls, retrieved, strategy_calls,
                   ap, total_ap, num_queries, result, fn_call>>

\* A training iteration that also applies an optimizer step after the pair's
\* backward pass (a per-pair update).
TrainPair_PerPairUpdate ==
    /\ pc = "train_loop"
    /\ idx < Len(train_pairs)
    /\ LET pair == train_pairs[idx + 1]
           prediction == similarity_with_projection(pair[1], pair[2], P)
       IN  /\ loss' = loss_func(prediction, pair[3])
           /\ grad' = Backward(grad, pair, P)
           /\ P' = AdamStep(P, AdamMoment(optimizer, Backward(grad, pair, P)))
           /\ encode_calls' = Encoded(encode_calls, <<pair[1], pair[2]>>)
    /\ idx' = idx + 1
    /\ UNCHANGED <<dataset, example_pairs, train_pairs, val_pairs, pc, epoch,
                   optimizer, val_loss, printed, retrieved, strategy_calls, ap,
                   total_ap, num_queries, result, fn_call>>

\* One iteration of `for pair in train_pairs`: prediction, loss, backward.
TrainPair ==
    /\ pc = "train_loop"
    /\ idx < Len(train_pairs)
    /\ LET pair == train_pairs[idx + 1]
           prediction == similarity_with_projection(pair[1], pair[2], P)
       IN  /\ loss' = loss_func(prediction, pair[3])
           /\ grad' = Backward(grad, pair, P)
           /\ encode_calls' = Encoded(encode_calls, <<pair[1], pair[2]>>)
    /\ idx' = idx + 1
    /\ UNCHANGED <<dataset, P, example_pairs, train_pairs, val_pairs, pc, epoch,
                   optimizer, val_loss, printed, retrieved, strategy_calls, ap,
                   total_ap, num_queries, result, fn_call>>

\* optimizer.step(), then `val_loss = 0`.
OptimizerStep ==
    /\ pc = "train_loop"
    /\ idx = Len(train_pairs)
    /\ optimizer' = AdamMoment(optimizer, grad)
    /\ P' = AdamStep(P, AdamMoment(optimizer, grad))
    /\ val_loss' = 0
    /\ idx' = 0
    /\ pc' = "val_loop"
    /\ UNCHANGED <<dataset, example_pairs, train_pairs, val_pairs, epoch, grad, loss,
                   printed, encode_calls, retrieved, strategy_calls, ap, total_ap,
                   num_queries, result, fn_call>>

\* One iteration of `for pair in val_pairs`: val_loss += loss_func(...).
ValidatePair ==
    /\ pc = "val_loop"
    /\ idx < Len(val_pairs)
    /\ LET pair == val_pairs[idx + 1]
           prediction == similarity_with_projection(pair[1], pair[2], P)
       IN  /\ val_loss' = LossAdd(val_loss, loss_func(prediction, pair[3]))
           /\ encode_calls' = Encoded(encode_calls, <<pair[1], pair[2]>>)
    /\ idx' = idx + 1
    /\ UNCHANGED <<dataset, P, example_pairs, train_pairs, val_pairs, pc, epoch, grad,
                   optimizer, loss, printed, retrieved, strategy_calls, ap, total_ap,
                   num_queries, result, fn_call>>

\* print(... val_loss.item() / len(val_pairs)) and the end of the epoch.  With
\* no validation pair val_loss is still the int 0, which has no .item(): the
\* cell raises.
PrintValidationLoss ==
    /\ pc = "val_loop"
    /\ idx = Len(val_pairs)
    /\ IF val_pairs = <<>>
       THEN /\ pc' = "training_raised"
            /\ UNCHANGED <<printed, epoch>>
       ELSE /\ printed' = Append(printed,
                   [epoch |-> epoch, val_loss |-> val_loss, pairs |-> Len(val_pairs)])
            /\ epoch' = epoch + 1
            /\ pc' = IF epoch + 1 < NumEpochs THEN "zero_grad" ELSE "retrieve"
    /\ UNCHANGED <<dataset, P, example_pairs, train_pairs, val_pairs, idx, grad,
                   optimizer, loss, val_loss, encode_calls, retrieved, strategy_calls,
                   ap, total_ap, num_queries, result, fn_call>>

\* Cell retrieve_relevant_snippets("Reset password").  The cells after the
\* training cell can be run whether or not it raised.
RetrieveCell ==
    /\ pc \in {"retrieve", "training_raised"}
    /\ retrieved' = retrieve_relevant_snippets("Reset password", all_snippets(dataset), P)
    /\ encode_calls' = Encoded(encode_calls,
                               RetrieveTexts("Reset password", all_snippets(dataset)))
    /\ pc' = "evaluate"
    /\ idx' = 0
    /\ total_ap' = FloatZero
    /\ num_queries' = 0
    /\ UNCHANGED <<dataset, P, example_pairs, train_pairs, val_pairs, epoch, grad,
                   optimizer, loss, val_loss, printed, strategy_calls, ap, result,
                   fn_call>>

\* One iteration of `for example in dataset` in evaluate_retrieval_strategy.
EvaluateExample ==
    /\ pc = "evaluate"
    /\ idx < Len(dataset)
    /\ LET example == dataset[idx + 1]
           got == retrieve_relevant_snippets(example.user_input, all_snippets(dataset), P)
       IN  /\ retrieved' = got
           /\ strategy_calls' = Append(strategy_calls, example.user_input)
           /\ ap' = average_precision(example.snippets, got)
           /\ total_ap' = FloatAdd(total_ap, ap')
           /\ encode_calls' = Encoded(encode_calls,
                                 RetrieveTexts(example.user_input, all_snippets(dataset)))
    /\ num_queries' = num_queries + 1
    /\ idx' = idx + 1
    /\ UNCHANGED <<dataset, P, example_pairs, train_pairs, val_pairs, pc, epoch, grad,
                   optimizer, loss, val_loss, printed, result, fn_call>>

\* The end of evaluate_retrieval_strategy: map_score and the returned string.
EvaluateReturn ==
    /\ pc = "evaluate"
    /\ idx = Len(dataset)
    /\ result' = FormatMAP(map_score_of(total_ap, num_queries))
    /\ pc' = "done"
    /\ UNCHANGED <<dataset, P, example_pairs, train_pairs, val_pairs, epoch, idx, grad,
                   optimizer, loss, val_loss, printed, encode_calls, retrieved,
                   strategy_calls, ap, total_ap, num_queries, fn_call>>

Next ==
    \/ ConstructExamples
    \/ ShuffleAndSplit
    \/ ZeroGrad
    \/ TrainPair
    \/ OptimizerStep
    \/ ValidatePair
    \/ PrintValidationLoss
    \/ RetrieveCell
    \/ EvaluateExample
    \/ EvaluateReturn

Spec == Init /\ [][Next]_vars

---------------------------------------------------------------------------
(* The training cell run on a shuffled and split list of pairs *)

\* The pairs the training cell is run on, as the construction cell emits
\* them (the label is fixed by the texts).
LabelledPairs == {PairOf("q1", "sA"), PairOf("q1", "sB"), PairOf("q2", "sA"), PairOf("q2", "sB")}

\* The dataset with one Example per pair, which yields exactly these pairs.
DatasetOfPairs(pairs) ==
    [k \in 1..Len(pairs) |-> [user_input |-> pairs[k][1], snippets |-> <<pairs[k][2]>>]]

\* The state in which the training cell starts: example_pairs is the
\* shuffled list, split at int(0.8 * len(example_pairs)).
InitTrain ==
    /\ example_pairs \in SeqsUpTo(LabelledPairs, MaxBatch)
    /\ dataset = DatasetOfPairs(example_pairs)
    /\ train_pairs = SubSeq(example_pairs, 1, SplitIndex(Len(example_pairs)))
    /\ val_pairs = SubSeq(example_pairs, SplitIndex(Len(example_pairs)) + 1,
                          Len(example_pairs))
    /\ encode_calls = Encoded(InitialEncodeCalls, PairTexts(example_pairs))
    /\ P \in InitialMatrices
    /\ pc = "zero_grad"
    /\ epoch = 0
    /\ idx = 0
    /\ grad = NoGrad
    /\ optimizer = NewOptimizer
    /\ loss = 0
    /\ val_loss = 0
    /\ printed = <<>>
    /\ retrieved = <<>>
    /\ strategy_calls = <<>>
    /\ ap = FloatZero
    /\ total_ap = FloatZero
    /\ num_queries = 0
    /\ result = NoResult
    /\ fn_call = NoCall

NextTrain ==
    \/ ZeroGrad
    \/ TrainPair
    \/ OptimizerStep
    \/ ValidatePair
    \/ PrintValidationLoss

SpecTrain == InitTrain /\ [][NextTrain]_vars

---------------------------------------------------------------------------
(* The functions of the notebook applied to arguments from bounded sets *)

\* Projection matrices with small entries.
Matrices == [1..dim -> [1..dim -> {0 - Unit, 0, Unit}]]

Corpora == SeqsUpTo(Snippets, MaxLen)

\* The lists retrieve_relevant_snippets returns for the corpora and matrices
\* above.
RetrievedLists ==
    {retrieve_relevant_snippets(q, c, M) : q \in Queries, c \in Corpora, M \in Matrices}

\* The calls to make: a function of the notebook and its arguments.
Calls(call) ==
    \/ \E x_i \in Texts, x_c \in Texts :
          call = [fn |-> "similarity", x_i |-> x_i, x_c |-> x_c]
    \/ \E x_i \in Texts, x_c \in Texts, M \in Matrices :
          call = [fn |-> "similarity_with_projection", x_i |-> x_i, x_c |-> x_c, M |-> M]
    \/ \E q \in Queries, c \in Corpora, M \in Matrices :
          call = [fn |-> "retrieve_relevant_snippets", user_input |-> q,
                  all_snippets |-> c, M |-> M]
    \/ \E relevant_items \in Corpora, retrieved_items \in RetrievedLists :
          call = [fn |-> "average_precision", relevant_items |-> relevant_items,
                  retrieved_items |-> retrieved_items]

InitFn ==
    /\ dataset = <<>>
    /\ P = IdentityMatrix
    /\ example_pairs = <<>>
    /\ train_pairs = <<>>
    /\ val_pairs = <<>>
    /\ pc = "call"
    /\ epoch = 0
    /\ idx = 0
    /\ grad = NoGrad
    /\ optimizer = NewOptimizer
    /\ loss = 0
    /\ val_loss = 0
    /\ printed = <<>>
    /\ encode_calls = InitialEncodeCalls
    /\ retrieved = <<>>
    /\ strategy_calls = <<>>
    /\ ap = FloatZero
    /\ total_ap = FloatZero
    /\ num_queries = 0
    /\ result = NoResult
    /\ Calls(fn_call)

\* The variables a function call leaves alone; the functions that embed a
\* text call the provider.
notebook_vars ==
    <<dataset, P, example_pairs, train_pairs, val_pairs, epoch, idx, grad, optimizer,
      loss, val_loss, printed, retrieved, strategy_calls, ap, total_ap, num_queries,
      result>>

CallSimilarity ==
    /\ pc = "call"
    /\ fn_call.fn = "similarity"
    /\ fn_call' = [fn |-> "similarity", x_i |-> fn_call.x_i, x_c |-> fn_call.x_c,
                   result |-> similarity(fn_call.x_i, fn_call.x_c)]
    /\ encode_calls' = Encoded(encode_calls, <<fn_call.x_i, fn_call.x_c>>)
    /\ pc' = "returned"
    /\ UNCHANGED notebook_vars

CallSimilarityWithProjection ==
    /\ pc = "call"
    /\ fn_call.fn = "similarity_with_projection"
    /\ fn_call' = [fn |-> "similarity_with_projection", x_i |-> fn_call.x_i,
                   x_c |-> fn_call.x_c, M |-> fn_call.M,
                   result |-> similarity_with_projection(fn_call.x_i, fn_call.x_c,
                                                         fn_call.M)]
    /\ encode_calls' = Encoded(encode_calls, <<fn_call.x_i, fn_call.x_c>>)
    /\ pc' = "returned"
    /\ UNCHANGED notebook_vars

CallRetrieve ==
    /\ pc = "call"
    /\ fn_call.fn = "retrieve_relevant_snippets"
    /\ fn_call' = [fn |-> "retrieve_relevant_snippets",
                   user_input |-> fn_call.user_input,
                   all_snippets |-> fn_call.all_snippets, M |-> fn_call.M,
                   result |-> retrieve_relevant_snippets(fn_call.user_input,
                                  fn_call.all_snippets, fn_call.M)]
    /\ encode_calls' = Encoded(encode_calls,
                               RetrieveTexts(fn_call.user_input, fn_call.all_snippets))
    /\ pc' = "returned"
    /\ UNCHANGED notebook_vars

CallAveragePrecision ==
    /\ pc = "call"
    /\ fn_call.fn = "average_precision"
    /\ fn_call' = [fn |-> "average_precision",
                   relevant_items |-> fn_call.relevant_items,
                   retrieved_items |-> fn_call.retrieved_items,
                   result |-> average_precision(fn_call.relevant_items,
                                                fn_call.retrieved_items)]
    /\ pc' = "returned"
    /\ UNCHANGED <<notebook_vars, encode_calls>>

NextFn ==
    \/ CallSimilarity
    \/ CallSimilarityWithProjection
    \/ CallRetrieve
    \/ CallAveragePrecision

SpecFn == InitFn /\ [][NextFn]_vars

---------------------------------------------------------------------------
(* Properties *)

\* Order of two float scores, with -Inf below and +Inf above the finite ones.
ScoreGeq(x, y) == x # NaN /\ y # NaN /\ x >= y

\* `ranked` is `corpus` scored by `scores` and stably sorted by descending
\* score: a permutation f of the corpus positions, scores never increasing,
\* equal scores in corpus order.
IsStableDescendingRanking(ranked, scored) ==
    /\ Len(ranked) = Len(scored)
    /\ \E f \in Permutations(Len(scored)) :
          /\ \A k \in 1..Len(scored) : ranked[k] = scored[f[k]]
          /\ \A k \in 1..(Len(scored) - 1) :
                /\ ScoreGeq(ranked[k][2], ranked[k + 1][2])
                /\ ranked[k][2] = ranked[k + 1][2] => f[k] < f[k + 1]

\* C1: whatever the query, the corpus and P, the list returned by
\* retrieve_relevant_snippets holds every (passage, score) pair of the corpus
\* ordered by descending score, equal scores in corpus order.
C1_RetrieveSortedDescending ==
    (pc = "returned" /\ fn_call.fn = "retrieve_relevant_snippets") =>
        IsStableDescendingRanking(
            fn_call.result,
            [k \in 1..Len(fn_call.all_snippets) |->
                <<fn_call.all_snippets[k],
                  similarity_with_projection(fn_call.user_input,
                                             fn_call.all_snippets[k], fn_call.M)>>])

\* C2: once the pairs are constructed, every passage s of every Example E's
\* relevant set has the pair (E.query, s, 1), whatever its similarity score.
C2_RelevantPairsLabelledOne ==
    pc # "construct_examples" =>
        \A e \in 1..Len(dataset) : \A k \in 1..Len(dataset[e].snippets) :
            \E n \in 1..Len(example_pairs) :
                example_pairs[n] = <<dataset[e].user_input, dataset[e].snippets[k], 1>>

\* The relevant passages of every Example whose query is q.
RelevantSetOf(q) ==
    UNION {SetOf(dataset[e].snippets) :
              e \in {x \in 1..Len(dataset) : dataset[x].user_input = q}}

\* C3: every pair labelled 0 pairs a query with a passage of another
\* Example's relevant set, never with one of the query's own relevant set.
C3_NegativesAreCrossExample ==
    \A n \in 1..Len(example_pairs) :
        example_pairs[n][3] = 0 =>
            example_pairs[n][2] \notin RelevantSetOf(example_pairs[n][1])

\* The float of an int n >= 0.
FloatOfInt(n) == RoundToFloat(Bits(n), 0, FALSE)

\* x <= y for floats.
FloatLeq(x, y) ==
    LET e == IF x.exponent < y.exponent THEN x.exponent ELSE y.exponent
        a == x.mantissa \o Zeros(x.exponent - e)
        b == y.mantissa \o Zeros(y.exponent - e)
    IN  \/ x = FloatZero
        \/ /\ y # FloatZero
           /\ \/ Len(a) < Len(b)
              \/ /\ Len(a) = Len(b)
                 /\ \/ a = b
                    \/ \E i \in 1..Len(a) :
                          /\ a[i] < b[i]
                          /\ \A j \in 1..(i - 1) : a[j] = b[j]

\* Every relevant item is ranked before every irrelevant one, and none is
\* missing from the ranking.
RelevantRankedFirst(relevant_items, retrieved_items) ==
    /\ relevant_items # <<>>
    /\ \A k \in 1..Len(relevant_items) :
          \E i \in 1..Len(retrieved_items) : retrieved_items[i][1] = relevant_items[k]
    /\ \A i, j \in 1..Len(retrieved_items) :
          (i < j /\ retrieved_items[j][1] \in SetOf(relevant_items))
              => retrieved_items[i][1] \in SetOf(relevant_items)

\* C4: the average precision the evaluation computes for an Example against
\* the ranking of the whole corpus (which may hold a passage more than once)
\* lies in [0, 1], and is exactly 1 when every relevant item is ranked before
\* every irrelevant one.
C4_AveragePrecisionBounds ==
    (pc = "evaluate" /\ idx > 0) =>
        /\ FloatLeq(FloatZero, ap)
        /\ FloatLeq(ap, FloatOfInt(1))
        /\ RelevantRankedFirst(dataset[idx].snippets, retrieved) => ap = FloatOfInt(1)

\* The reference computation of the average precision: the precisions at the
\* relevant positions, summed and divided by the size of the relevant set.
RECURSIVE SumOfPrecisions(_, _, _)
SumOfPrecisions(relevant_set, retrieved_items, n) ==
    IF n = 0 THEN FloatZero
    ELSE IF retrieved_items[n][1] \in relevant_set
         THEN FloatAdd(SumOfPrecisions(relevant_set, retrieved_items, n - 1),
                       IntTrueDiv(
                           Cardinality({i \in 1..n : retrieved_items[i][1] \in relevant_set}),
                           n))
    ELSE SumOfPrecisions(relevant_set, retrieved_items, n - 1)

ReferenceAP(relevant_items, retrieved_items) ==
    IF SetOf(relevant_items) = {} THEN FloatZero
    ELSE FloatDivInt(SumOfPrecisions(SetOf(relevant_items), retrieved_items,
                                     Len(retrieved_items)),
                     Cardinality(SetOf(relevant_items)))

\* C5: average_precision(relevant, ranked) is the reference computation: the
\* sum over the relevant positions of (relevant seen so far / position),
\* divided by the size of the relevant set, and 0 for an empty relevant set.
C5_AveragePrecisionIsReference ==
    (pc = "returned" /\ fn_call.fn = "average_precision") =>
        fn_call.result = ReferenceAP(fn_call.relevant_items, fn_call.retrieved_items)

\* The mean of the average precisions of the Examples of ds, each against the
\* retrieval for its own query with matrix M.
RECURSIVE SumOfAP(_, _, _)
SumOfAP(ds, n, M) ==
    IF n = 0 THEN FloatZero
    ELSE FloatAdd(SumOfAP(ds, n - 1, M),
                  average_precision(ds[n].snippets,
                      retrieve_relevant_snippets(ds[n].user_input, all_snippets(ds), M)))

MeanAP(ds, M) ==
    IF ds = <<>> THEN FloatZero ELSE FloatDivInt(SumOfAP(ds, Len(ds), M), Len(ds))

\* C6: evaluate_retrieval_strategy calls the strategy once per Example, in
\* order, and returns the arithmetic mean of the average precisions as a
\* number (0 for a dataset without Examples).
C6_EvaluateReturnsMeanAsNumber ==
    pc = "done" =>
        /\ strategy_calls = [e \in 1..Len(dataset) |-> dataset[e].user_input]
        /\ result.type = "float"
        /\ result.value = MeanAP(dataset, P)


\* Scenarios A and B: the query embeds to [1,0], the relevant passage to
\* [1,0], the irrelevant passage to [0,1].
ScenarioQuery == "q1"
ScenarioRelevant == "sA"
ScenarioIrrelevant == "sB"

\* The two passages with their projected scores under M, the irrelevant
\* passage first.
IrrelevantFirst(M) ==
    <<<<ScenarioIrrelevant,
        similarity_with_projection(ScenarioQuery, ScenarioIrrelevant, M)>>,
      <<ScenarioRelevant,
        similarity_with_projection(ScenarioQuery, ScenarioRelevant, M)>>>>

IsScenarioScore(call, passage, M) ==
    /\ call.fn = "similarity_with_projection"
    /\ call.x_i = ScenarioQuery
    /\ call.x_c = passage
    /\ call.M = M

IsScenarioBPrecision(call) ==
    /\ call.fn = "average_precision"
    /\ call.relevant_items = <<ScenarioRelevant>>
    /\ call.retrieved_items = IrrelevantFirst(SwapMatrix)

\* Scenario B with the average precision `expected`.
ScenarioB(expected) ==
    pc = "returned" =>
        /\ IsScenarioScore(fn_call, ScenarioRelevant, SwapMatrix) => fn_call.result = 0
        /\ IsScenarioScore(fn_call, ScenarioIrrelevant, SwapMatrix) => fn_call.result = Unit
        /\ IrrelevantFirst(SwapMatrix)[1][2] > IrrelevantFirst(SwapMatrix)[2][2]
        /\ IsScenarioBPrecision(fn_call) => fn_call.result = expected

\* C7 as stated: in Scenario B (P the swap matrix) the relevant passage
\* scores 0, the irrelevant one scores 1 and so ranks first, and the average
\* precision of that ranking against the relevant passage is 0.
C7_ScenarioB_PrecisionZero == ScenarioB(FloatZero)

\* C7, amended: in Scenario B the relevant passage scores 0, the irrelevant
\* one scores 1 and so ranks first, and the average precision of that ranking
\* against the relevant passage is 1/2 (one relevant item, at position 2).
C7_ScenarioB_PrecisionHalf == ScenarioB(IntTrueDiv(1, 2))

C7_Witness ==
    /\ pc = "returned"
    /\ IsScenarioBPrecision(fn_call)
    /\ fn_call.retrieved_items = <<<<"sB", Unit>>, <<"sA", 0>>>>
    /\ fn_call.result = IntTrueDiv(1, 2)

\* Scenario A as a retrieval: the query over the two passages, in either
\* order of the corpus, with P the identity.
IsScenarioARetrieval(call) ==
    /\ call.fn = "retrieve_relevant_snippets"
    /\ call.user_input = ScenarioQuery
    /\ Len(call.all_snippets) = 2
    /\ SetOf(call.all_snippets) = {ScenarioRelevant, ScenarioIrrelevant}
    /\ call.M = IdentityMatrix

\* The corpus scored with the baseline similarity, in corpus order.
BaselineScored(user_input, snippets) ==
    [k \in 1..Len(snippets) |-> <<snippets[k], similarity(user_input, snippets[k])>>]

\* The ranking Scenario A expects.
RelevantFirst == <<<<ScenarioRelevant, Unit>>, <<ScenarioIrrelevant, 0>>>>

\* C8: with P the identity matrix the projected similarity is the baseline
\* similarity, so retrieval returns the baseline ranking (the corpus ordered
\* by descending baseline similarity); in Scenario A the relevant passage is
\* ranked first with score 1, the irrelevant one second with score 0, and the
\* average precision of the retrieved ranking is 1.
C8_IdentityYieldsBaselineRanking ==
    pc = "returned" =>
        /\ (fn_call.fn = "similarity_with_projection" /\ fn_call.M = IdentityMatrix)
              => fn_call.result = similarity(fn_call.x_i, fn_call.x_c)
        /\ (fn_call.fn = "retrieve_relevant_snippets" /\ fn_call.M = IdentityMatrix)
              => IsStableDescendingRanking(
                     fn_call.result,
                     BaselineScored(fn_call.user_input, fn_call.all_snippets))
        /\ IsScenarioScore(fn_call, ScenarioRelevant, IdentityMatrix) => fn_call.result = Unit
        /\ IsScenarioScore(fn_call, ScenarioIrrelevant, IdentityMatrix) => fn_call.result = 0
        /\ IsScenarioARetrieval(fn_call)
              => /\ fn_call.result = RelevantFirst
                 /\ average_precision(<<ScenarioRelevant>>, fn_call.result) = FloatOfInt(1)

\* C9: over the whole run the embedding provider is called at most once for
\* every distinct text.
C9_ProviderCalledOncePerText == \A t \in Texts : encode_calls[t] <= 1

\* The sum of the gradients of the given pairs, all evaluated at the matrix M.
RECURSIVE SumOfPairGradients(_, _)
SumOfPairGradients(pairs, M) ==
    IF pairs = <<>>
    THEN [nan |-> FALSE, g |-> ZeroMatrix]
    ELSE LET rest == SumOfPairGradients(Tail(pairs), M)
             pg == PairGradient(Head(pairs), M)
         IN  [nan |-> pg.nan \/ rest.nan, g |-> MatAdd(pg.g, rest.g)]

AccumulatorIsSumSoFar ==
    pc = "train_loop" =>
        /\ grad = SumOfPairGradients(SubSeq(train_pairs, 1, idx), P)
        /\ optimizer.steps = epoch

StepTakesFullBatchGradient ==
    optimizer'.steps # optimizer.steps =>
        /\ optimizer'.steps = optimizer.steps + 1
        /\ idx = Len(train_pairs)
        /\ grad = SumOfPairGradients(train_pairs, P)
        /\ optimizer' = AdamMoment(optimizer, SumOfPairGradients(train_pairs, P))

NoResetOrUpdateBetweenPairs ==
    (pc = "train_loop" /\ pc' = "train_loop") =>
        /\ P' = P
        /\ optimizer' = optimizer
        /\ idx' = idx + 1
        /\ grad' = Backward(grad, train_pairs[idx + 1], P)

\* C11: in every epoch the accumulated gradient is reset once, then the
\* gradient of every training pair is added with no reset and no update of P
\* in between, then exactly one optimizer step is applied: during the loop
\* the accumulator is the sum of the gradients of the pairs seen so far, and
\* at the step it is the sum over all training pairs, all evaluated at the P
\* of the start of the epoch.
C11_FullBatchAccumulation ==
    /\ []AccumulatorIsSumSoFar
    /\ [][StepTakesFullBatchGradient /\ NoResetOrUpdateBetweenPairs]_vars

\* C11 witness: in the second epoch, two training pairs have been accumulated
\* into a non-zero gradient and the optimizer step has not been taken yet.
C11_Witness ==
    /\ pc = "train_loop"
    /\ epoch = 1
    /\ optimizer.steps = 1
    /\ Len(train_pairs) = 2
    /\ idx = 2
    /\ grad.g # ZeroMatrix
    /\ PairGradient(train_pairs[1], P).g # grad.g
    /\ grad = SumOfPairGradients(train_pairs, P)

\* The losses of the given pairs at the matrix M, summed in list order.
RECURSIVE SumOfLosses(_, _)
SumOfLosses(pairs, M) ==
    IF pairs = <<>>
    THEN 0
    ELSE LET n == Len(pairs)
             before == SumOfLosses(SubSeq(pairs, 1, n - 1), M)
             last == loss_func(similarity_with_projection(pairs[n][1], pairs[n][2], M),
                               pairs[n][3])
         IN  IF before = LossNaN \/ last = LossNaN THEN LossNaN
             ELSE IF before = LossInf \/ last = LossInf THEN LossInf
             ELSE before + last

ValidationFollowsStep ==
    pc = "val_loop" =>
        /\ optimizer.steps = epoch + 1
        /\ val_loss = SumOfLosses(SubSeq(val_pairs, 1, idx), P)

ValidationLeavesParameters ==
    pc = "val_loop" => (P' = P /\ grad' = grad /\ optimizer' = optimizer)

StepThenValidation ==
    (pc' = "val_loop" /\ pc # "val_loop") =>
        /\ optimizer'.steps = optimizer.steps + 1
        /\ P' = AdamStep(P, optimizer')

ReportsMeanValidationLoss ==
    printed' # printed =>
        printed' = Append(printed, [epoch |-> epoch,
                                    val_loss |-> SumOfLosses(val_pairs, P),
                                    pairs |-> Len(val_pairs)])

\* C12: in every epoch the validation pass runs after that epoch's optimizer
\* step and scores with the updated matrix; it changes neither P nor the
\* accumulated gradient nor the optimizer state; the loss it reports is the
\* sum of the losses of the validation pairs over their number.
C12_ValidationPass ==
    /\ []ValidationFollowsStep
    /\ [][ValidationLeavesParameters /\ StepThenValidation
            /\ ReportsMeanValidationLoss]_vars

\* C12 witness: the second epoch has reported the loss of two validation
\* pairs with different losses, computed with a matrix that the optimizer
\* steps have changed.
C12_Witness ==
    /\ Len(printed) = 2
    /\ Len(val_pairs) = 2
    /\ optimizer.steps = 2
    /\ P \notin InitialMatrices
    /\ printed[2].pairs = 2
    /\ printed[2].val_loss = SumOfLosses(val_pairs, P)
    /\ LossIsFinite(printed[2].val_loss)
    /\ SumOfLosses(SubSeq(val_pairs, 1, 1), P) # SumOfLosses(SubSeq(val_pairs, 2, 2), P)

TrainingOver == pc \in {"retrieve", "training_raised", "evaluate", "done"}

\* C13: training terminates having run exactly the configured number of
\* epochs and applied exactly that many optimizer steps, whatever the pairs
\* and the losses.
C13_TrainingRunsAllEpochs ==
    TrainingOver =>
        /\ pc # "training_raised"
        /\ epoch = NumEpochs
        /\ optimizer.steps = NumEpochs
        /\ Len(printed) = NumEpochs

Occurrences(seq, x) == Cardinality({k \in 1..Len(seq) : seq[k] = x})

IsPermutationOf(a, b) ==
    /\ Len(a) = Len(b)
    /\ \A k \in 1..Len(a) : Occurrences(a, a[k]) = Occurrences(b, a[k])

SplitDone == pc \notin {"construct_examples", "split"}

\* C14: after the shuffle and the split, the shuffled list is a permutation
\* of the generated pairs, the training subset is its first floor(0.8 * n)
\* pairs and the validation subset is the rest, so that every generated pair
\* is in exactly one of the two.
C14_ShuffleAndSplit ==
    SplitDone =>
        LET n == Len(example_pairs)
            t == Len(train_pairs)
        IN  /\ IsPermutationOf(example_pairs, ConstructPairs(dataset))
            /\ 10 * t <= 8 * n
            /\ 8 * n < 10 * (t + 1)
            /\ Len(val_pairs) = n - t
            /\ \A k \in 1..t : train_pairs[k] = example_pairs[k]
            /\ \A k \in 1..(n - t) : val_pairs[k] = example_pairs[t + k]
            /\ IsPermutationOf(train_pairs \o val_pairs, ConstructPairs(dataset))

\* C14 witness: three generated pairs, not all equal, have been shuffled into
\* another order and split two to one.
C14_Witness ==
    /\ pc = "zero_grad"
    /\ Len(example_pairs) = 3
    /\ example_pairs # ConstructPairs(dataset)
    /\ Len(train_pairs) = 2
    /\ Len(val_pairs) = 1
    /\ val_pairs[1] = ConstructPairs(dataset)[1]

IsOptimizerStep ==
    /\ pc = "train_loop"
    /\ idx = Len(train_pairs)
    /\ pc' = "val_loop"
    /\ optimizer'.steps = optimizer.steps + 1

\* C15: the entries of P change only in the optimizer step: scoring a pair,
\* accumulating its gradient, the validation pass, retrieval, average
\* precision and the evaluation all leave P as it is.
C15_OnlyOptimizerStepChangesP ==
    [][(P' # P => IsOptimizerStep)
       /\ (~IsOptimizerStep => P' = P)
       /\ (IsOptimizerStep => P' = AdamStep(P, optimizer'))]_vars

\* C15 witness: the run is over, the optimizer steps have moved P away from
\* its initial value, and pairs were scored, validation losses reported, a
\* query retrieved and every Example evaluated.
C15_Witness ==
    /\ pc = "done"
    /\ optimizer.steps = NumEpochs
    /\ P \notin InitialMatrices
    /\ Len(train_pairs) >= 2
    /\ Len(printed) = NumEpochs
    /\ Len(strategy_calls) = Len(dataset)
    /\ Len(dataset) >= 2
    /\ retrieved = retrieve_relevant_snippets(dataset[Len(dataset)].user_input,
                                              all_snippets(dataset), P)
    /\ result.type = "str"

\* C16: retrieve_relevant_snippets returns one (snippet, score) entry for
\* each element of all_snippets, duplicates included and in the same number
\* (none for an empty corpus), and the score of each entry is
\* similarity_with_projection(query, snippet, P) for the P of the call.
C16_RetrieveScoresEachSnippet ==
    (pc = "returned" /\ fn_call.fn = "retrieve_relevant_snippets") =>
        /\ Len(fn_call.result) = Len(fn_call.all_snippets)
        /\ (fn_call.all_snippets = <<>> => fn_call.result = <<>>)
        /\ \A k \in 1..Len(fn_call.all_snippets) :
              /\ fn_call.result[k][1] = fn_call.all_snippets[k]
              /\ fn_call.result[k][2] =
                    similarity_with_projection(fn_call.user_input,
                                               fn_call.all_snippets[k], fn_call.M)

\* C16 witness: a retrieval over a corpus of three snippets, one of them
\* twice, with a matrix under which the projected score of a snippet differs
\* from its baseline similarity, has returned three entries.
C16_Witness ==
    /\ pc = "returned"
    /\ fn_call.fn = "retrieve_relevant_snippets"
    /\ Len(fn_call.all_snippets) = 3
    /\ fn_call.all_snippets[1] = fn_call.all_snippets[3]
    /\ fn_call.all_snippets[1] # fn_call.all_snippets[2]
    /\ Len(fn_call.result) = 3
    /\ fn_call.result[1] = fn_call.result[3]
    /\ fn_call.result[1][2] # similarity(fn_call.user_input, fn_call.all_snippets[1])
    /\ fn_call.result[2][2] # fn_call.result[1][2]


===========================================================================
